---- MODULE Spec2Model ----
(***************************************************************************)
(* Orders MVP viewer page (Home component).  Three revisions of the page   *)
(* live in the repository:                                                 *)
(*   src/unnamed/part_001   onSelect backed by the PDF cache (pdfCacheRef) *)
(*   src/web/pages/index.js onSelect followed by the /match_pdf matcher    *)
(*   src/unnamed/part_000   plain onSelect                                 *)
(* Each revision is one specification over the same React state.           *)
(***************************************************************************)
EXTENDS Integers, Sequences, FiniteSets, TLC

VARIABLES
  items,            \* useState items: the page of the record list on screen
  pdfjs,            \* pdfjsRef.current: "loading" | "ready" | "failed"
  selected,         \* useState selected (a row, or NoRow)
  pdfDoc,           \* useState pdfDoc (a document handle, or NoDoc)
  pageNumber,       \* useState pageNumber
  pdfMessage,       \* useState pdfMessage
  loadingPdf,       \* useState loadingPdf
  highlightTokens,  \* useState highlightTokens (index.js only)
  pdfCache,         \* pdfCacheRef.current: Map in insertion order (part_001 only)
  now,              \* the value Date.now() returns
  opened,           \* number of getDocument() calls made so far
  inflight,         \* onSelect invocations suspended at an await
  destroyed,        \* handles on which destroy() was called
  warm,             \* rows the operator had opened before exploration starts
  normBase,         \* a text as one source spells it (an anchor of the matcher)
  normText,         \* the same text as another source spells it (a PDF fragment)
  normCalls,        \* applications of normalizeForSearch made so far
  normArg,          \* argument of the last application
  normOut,          \* result of the last application
  renders,          \* renderPage runs suspended at an await
  rendered,         \* number of renderPage runs started so far
  canvas,           \* canvasRef.current: what was painted on it last
  textLayer,        \* textLayerRef.current: its spans, in document order
  frags,            \* RawFragment texts of the page being indexed, in order
  needle,           \* the quote to locate
  canonical,        \* CanonicalString of the page
  indexMap,         \* IndexMap of the page
  located,          \* result of locate: a set of fragment indices or NotFound
  finderAt,         \* progress of the lookup
  scanDoc,          \* pages of the document being scanned
  pageLimit,        \* configured ceiling of the scan
  requested,        \* page numbers requested from the loader, in order
  orders,           \* the records as the server holds them
  saving,           \* updateStatus and saveEdits calls suspended at an await
  calls,            \* number of updateStatus and saveEdits calls made so far
  loadingList,      \* useState loadingList
  editOpen,         \* useState editOpen (part_001 only)
  editSaving,       \* useState editSaving (part_001 only)
  editError,        \* useState editError (part_001 only)
  editForm          \* useState editForm (part_001 only)

vars == <<items, pdfjs, selected, pdfDoc, pageNumber, pdfMessage, loadingPdf,
          highlightTokens, pdfCache, now, opened, inflight, destroyed,
          warm, normBase, normText, normCalls, normArg, normOut,
          renders, rendered, canvas, textLayer,
          frags, needle, canonical, indexMap, located, finderAt,
          scanDoc, pageLimit, requested,
          orders, saving, calls, loadingList, editOpen, editSaving, editError,
          editForm>>

\* The state of the normalizer's callers
normVars == <<normBase, normText, normCalls, normArg, normOut>>

\* The canvas, the text layer and the runs of renderPage
renderVars == <<renders, rendered, canvas, textLayer>>

\* The indexer, the locator and the scanner
finderVars == <<frags, needle, canonical, indexMap, located, finderAt,
                scanDoc, pageLimit, requested>>

\* The server's records, the status and edit requests and the edit panel
editVars == <<orders, saving, calls, loadingList, editOpen, editSaving,
              editError, editForm>>

\* What lies beyond the React state of the page
beyondPage == <<renderVars, finderVars>>

restVars == <<normVars, beyondPage>>

\* The state of the page
pageVars == <<items, pdfjs, selected, pdfDoc, pageNumber, pdfMessage,
              loadingPdf, highlightTokens, pdfCache, now, opened, inflight,
              destroyed, warm>>

----------------------------------------------------------------------------
(* Bounds of the model *)

\* getDocument() calls explored after the initial state
MaxOpens == 2
\* clock ticks explored after the initial state
MaxTicks == 1

ClockEnd == warm + MaxTicks
OpensEnd == warm + MaxOpens

----------------------------------------------------------------------------
(* Values *)

Null == "null"          \* JavaScript null / undefined
NoRow == [none |-> Null]
NoEntry == [none |-> Null]
NoDoc == [src |-> <<>>, h |-> 0]
NoKey == <<>>
NoCanvas == [doc |-> NoDoc, page |-> 0]

NotFound == "NotFound"

\* No lookup was started.
FinderIdle ==
  /\ frags = <<>>
  /\ needle = <<>>
  /\ canonical = <<>>
  /\ indexMap = <<>>
  /\ located = NotFound
  /\ finderAt = "idle"
  /\ scanDoc = <<>>
  /\ pageLimit = 0
  /\ requested = <<>>

\* No status or edit request was made, the edit panel is closed and empty.
EditIdle ==
  /\ orders = <<>>
  /\ saving = {}
  /\ calls = 0
  /\ loadingList = FALSE
  /\ editOpen = FALSE
  /\ editSaving = FALSE
  /\ editError = ""
  /\ editForm = [Klient |-> ""]

\* Nothing was rendered yet and no run of renderPage is under way.
RenderIdle ==
  /\ renders = {}
  /\ rendered = 0
  /\ canvas = NoCanvas
  /\ textLayer = <<>>

MAX_PDF_CACHE == 5

\* A page of the record list whose six records name six documents.
ItemsDistinct ==
  << [Id |-> 1, onedriveId |-> "d1", pdfWebUrl |-> "u1"],
     [Id |-> 2, onedriveId |-> "d2"],
     [Id |-> 3, onedrive_id |-> "d3", pdfUrl |-> "u3"],
     [Id |-> 4, OneDriveId |-> "d4"],
     [Id |-> 6, onedriveId |-> "d6"],
     [Id |-> 7, onedriveId |-> "", PDF_URL |-> "u7"] >>

\* The five records the operator opened, one after another, before the
\* exploration of a warm page starts: four of the page above and one of a
\* page of the list that is no longer on screen.
WarmRows ==
  << ItemsDistinct[1], ItemsDistinct[2], ItemsDistinct[3], ItemsDistinct[4],
     [Id |-> 5, onedriveId |-> "d5"] >>

\* A page of the record list with a record and its document under another
\* URL, records reachable by URL only, and a record with neither.
ItemsKeying ==
  << [Id |-> 1, onedriveId |-> "d1", pdfWebUrl |-> "u1"],
     [Id |-> 2, onedriveId |-> "d1", pdfWebUrl |-> "u2"],
     [Id |-> 3, pdfWebUrl |-> "u1"],
     [Id |-> 4, onedriveId |-> "", onedrive_id |-> Null, PDF_URL |-> "u2"],
     [Id |-> 5, onedriveId |-> Null, pdfWebUrl |-> ""] >>

Rows == {items[i] : i \in 1..Len(items)}

IdFields == <<"onedriveId", "onedrive_id", "OneDriveId">>
UrlFields == <<"pdfWebUrl", "pdf_web_url", "pdfUrl", "PDF_URL">>

Min(S) == CHOOSE x \in S : \A y \in S : x <= y

\* pickField(row, candidates): the first candidate field that is present and
\* neither undefined, null nor "".
pickField(row, candidates) ==
  LET ok == {i \in 1..Len(candidates) :
               /\ candidates[i] \in DOMAIN row
               /\ row[candidates[i]] # Null
               /\ row[candidates[i]] # ""}
  IN IF ok = {} THEN Null ELSE row[candidates[Min(ok)]]

getPdfCacheKeyUrlFirst(row) ==
  LET oneDriveId == pickField(row, IdFields)
      pdfUrl == pickField(row, UrlFields)
  IN IF pdfUrl # Null THEN <<"url", pdfUrl>>
     ELSE IF oneDriveId # Null THEN <<"id", oneDriveId>>
     ELSE NoKey

\* getPdfCacheKey(row): `id:${oneDriveId}`, else `url:${pdfUrl}`, else null.
getPdfCacheKey(row) ==
  LET oneDriveId == pickField(row, IdFields)
      pdfUrl == pickField(row, UrlFields)
  IN IF oneDriveId # Null THEN <<"id", oneDriveId>>
     ELSE IF pdfUrl # Null THEN <<"url", pdfUrl>>
     ELSE NoKey

\* The proxied URL built by onSelect: /pdf?id=..&url=.., /pdf?id=.. or /pdf?url=..
proxiedUrl(row) ==
  LET oneDriveId == pickField(row, IdFields)
      pdfUrl == pickField(row, UrlFields)
  IN IF oneDriveId # Null
       THEN IF pdfUrl # Null THEN <<"id", oneDriveId, "url", pdfUrl>>
            ELSE <<"id", oneDriveId>>
     ELSE IF pdfUrl # Null THEN <<"url", pdfUrl>>
     ELSE <<>>

\* a ?? b ?? "" on the fields of a row
firstNotNullish(row, fields) ==
  LET ok == {i \in 1..Len(fields) :
               fields[i] \in DOMAIN row /\ row[fields[i]] # Null}
  IN IF ok = {} THEN "" ELSE row[fields[Min(ok)]]

\* setEditForm({ Klient: row.Klient ?? row.klient ?? "", ... }): the form is
\* followed through its field Klient; the four other fields are filled, sent
\* and reset the same way.
formOf(row) == [Klient |-> firstNotNullish(row, <<"Klient", "klient">>)]

\* The handle getDocument() resolves for the n-th call, made for `row`.
docOf(row, n) == [src |-> proxiedUrl(row), h |-> n]

----------------------------------------------------------------------------
(* The PDF cache: key -> { doc, lastUsed } *)

cacheKeys(cache) == {cache[i].key : i \in 1..Len(cache)}

cacheIndex(cache, k) == CHOOSE i \in 1..Len(cache) : cache[i].key = k

\* Map.prototype.get
cacheGet(cache, k) ==
  IF k \in cacheKeys(cache) THEN cache[cacheIndex(cache, k)] ELSE NoEntry

\* Map.prototype.set: an existing key keeps its place in the iteration order.
cacheSet(cache, k, doc, t) ==
  LET e == [key |-> k, doc |-> doc, lastUsed |-> t]
  IN IF k \in cacheKeys(cache)
       THEN [cache EXCEPT ![cacheIndex(cache, k)] = e]
       ELSE Append(cache, e)

cacheTouchNot(cache, k, t) == cache

\* cached.lastUsed = Date.now() on the entry of key k
cacheTouch(cache, k, t) ==
  [cache EXCEPT ![cacheIndex(cache, k)].lastUsed = t]

\* Map.prototype.delete
cacheDelete(cache, i) ==
  SubSeq(cache, 1, i - 1) \o SubSeq(cache, i + 1, Len(cache))

\* The loop of prunePdfCache: the first entry, in iteration order, whose
\* lastUsed is strictly below everything before it.
oldestIndex(cache) ==
  CHOOSE i \in 1..Len(cache) :
    /\ \A j \in 1..Len(cache) : cache[i].lastUsed <= cache[j].lastUsed
    /\ \A j \in 1..(i - 1) : cache[j].lastUsed > cache[i].lastUsed

prunePdfCacheOff(cache) == cache

prunePdfCacheFirst(cache) ==
  IF Len(cache) <= MAX_PDF_CACHE THEN cache
  ELSE cacheDelete(cache, 1)

\* prunePdfCache(): at most one entry is deleted per call.
prunePdfCache(cache) ==
  IF Len(cache) <= MAX_PDF_CACHE THEN cache
  ELSE cacheDelete(cache, oldestIndex(cache))

\* The entries of `before` whose key is no longer in `after`.
removedBy(before, after) ==
  {before[i] : i \in {j \in 1..Len(before) :
                        before[j].key \notin cacheKeys(after)}}

----------------------------------------------------------------------------
(* Messages of setPdfMessage *)

MsgNone == ""
MsgPdfjsLoading == "PDF.js jeszcze sie laduje"
MsgPdfjsFailed == "Nie udalo sie zaladowac pdf.js"
MsgNoSource == "Brak onedriveId i brak URL do PDF w rekordzie."
MsgFromCache == "PDF z cache."
MsgLoadedCached == "PDF zaladowany (cache zapisany)."
MsgLoadFailed == "Nie udalo sie zaladowac PDF"

----------------------------------------------------------------------------
(* part_001: the page with the PDF cache *)

\* The dynamic import of pdfjs-dist resolves and sets pdfjsRef.current.
PdfjsLoaded ==
  /\ pdfjs = "loading"
  /\ pdfjs' = "ready"
  /\ UNCHANGED <<items, selected, pdfDoc, pageNumber, pdfMessage, loadingPdf,
                 highlightTokens, pdfCache, now, opened, inflight, destroyed,
                 warm, restVars, editVars>>

\* The dynamic import rejects: the .catch sets the message.
PdfjsFailed ==
  /\ pdfjs = "loading"
  /\ pdfjs' = "failed"
  /\ pdfMessage' = MsgPdfjsFailed
  /\ UNCHANGED <<items, selected, pdfDoc, pageNumber, loadingPdf, highlightTokens,
                 pdfCache, now, opened, inflight, destroyed, warm, restVars, editVars>>

\* Date.now() advances.
Tick ==
  /\ now < ClockEnd
  /\ now' = now + 1
  /\ UNCHANGED <<items, pdfjs, selected, pdfDoc, pageNumber, pdfMessage, loadingPdf,
                 highlightTokens, pdfCache, opened, inflight, destroyed, warm, restVars, editVars>>

\* onSelect(row) up to its first await or return.
CacheOnSelect(row) ==
  LET cacheKey == getPdfCacheKey(row)
      cached == cacheGet(pdfCache, cacheKey)
  IN
  /\ selected' = row
  /\ pageNumber' = 1
  /\ editOpen' = FALSE
  /\ editError' = ""
  /\ editForm' = formOf(row)
  /\ UNCHANGED <<items, pdfjs, highlightTokens, now, destroyed, warm, restVars,
                 orders, saving, calls, loadingList, editSaving>>
  /\ IF pdfjs # "ready" THEN
       /\ pdfMessage' = MsgPdfjsLoading
       /\ UNCHANGED <<pdfDoc, loadingPdf, pdfCache, opened, inflight>>
     ELSE IF cacheKey = NoKey THEN
       /\ pdfMessage' = MsgNoSource
       /\ UNCHANGED <<pdfDoc, loadingPdf, pdfCache, opened, inflight>>
     ELSE IF cached # NoEntry THEN
       \* 1) HIT
       /\ pdfCache' = cacheTouch(pdfCache, cacheKey, now)
       /\ pdfDoc' = cached.doc
       /\ pdfMessage' = MsgFromCache
       /\ UNCHANGED <<loadingPdf, opened, inflight>>
     ELSE
       \* 2) MISS: getDocument(...) is called and awaited
       /\ opened < OpensEnd
       /\ pdfMessage' = MsgNone
       /\ loadingPdf' = TRUE
       /\ opened' = opened + 1
       /\ inflight' = inflight \cup
            {[row |-> row, cacheKey |-> cacheKey,
              doc |-> docOf(row, opened + 1)]}
       /\ UNCHANGED <<pdfDoc, pdfCache>>

\* getDocument(...).promise resolves: cache insert, prune, display.
CacheLoadResolved(inv) ==
  LET inserted == cacheSet(pdfCache, inv.cacheKey, inv.doc, now)
      pruned == prunePdfCache(inserted)
  IN
  /\ inv \in inflight
  /\ inflight' = inflight \ {inv}
  /\ pdfCache' = pruned
  /\ pdfDoc' = inv.doc
  /\ pdfMessage' = MsgLoadedCached
  /\ loadingPdf' = FALSE
  /\ UNCHANGED <<items, pdfjs, selected, pageNumber, highlightTokens, now, opened,
                 destroyed, warm, restVars, editVars>>

CacheLoadRejectedCached(inv) ==
  /\ inv \in inflight
  /\ inflight' = inflight \ {inv}
  /\ pdfCache' = prunePdfCache(cacheSet(pdfCache, inv.cacheKey, NoDoc, now))
  /\ pdfMessage' = MsgLoadFailed
  /\ loadingPdf' = FALSE
  /\ UNCHANGED <<items, pdfjs, selected, pdfDoc, pageNumber, highlightTokens,
                 now, opened, destroyed, warm, restVars, editVars>>

\* getDocument(...).promise rejects: the catch and finally blocks.
CacheLoadRejected(inv) ==
  /\ inv \in inflight
  /\ inflight' = inflight \ {inv}
  /\ pdfMessage' = MsgLoadFailed
  /\ loadingPdf' = FALSE
  /\ UNCHANGED <<items, pdfjs, selected, pdfDoc, pageNumber, highlightTokens,
                 pdfCache, now, opened, destroyed, warm, restVars, editVars>>

\* The cache after the operator opened WarmRows[1..k] one after another, each
\* load resolving one clock tick after the previous one: the fold of the
\* insert-and-prune step of onSelect over those rows.
RECURSIVE warmCache(_)
warmCache(k) ==
  IF k = 0 THEN <<>>
  ELSE prunePdfCache(cacheSet(warmCache(k - 1), getPdfCacheKey(WarmRows[k]),
                              docOf(WarmRows[k], k), k))

\* The page as mounted (k = 0), or after WarmRows[1..k] were opened in turn.
CacheStart(k) ==
  /\ warm = k
  /\ normBase = <<>>
  /\ normText = <<>>
  /\ normCalls = 0
  /\ normArg = <<>>
  /\ normOut = <<>>
  /\ RenderIdle
  /\ EditIdle
  /\ FinderIdle
  /\ items = IF k = 0 THEN ItemsKeying ELSE ItemsDistinct
  /\ pdfjs = IF k = 0 THEN "loading" ELSE "ready"
  /\ selected = IF k = 0 THEN NoRow ELSE WarmRows[k]
  /\ pdfDoc = IF k = 0 THEN NoDoc ELSE docOf(WarmRows[k], k)
  /\ pageNumber = 1
  /\ pdfMessage = IF k = 0 THEN MsgNone ELSE MsgLoadedCached
  /\ loadingPdf = FALSE
  /\ highlightTokens = <<>>
  /\ pdfCache = warmCache(k)
  /\ now = k
  /\ opened = k
  /\ inflight = {}
  /\ destroyed = {}

CacheInit == CacheStart(0) \/ CacheStart(Len(WarmRows))

CacheNext ==
  \/ PdfjsLoaded
  \/ PdfjsFailed
  \/ Tick
  \/ \E row \in Rows : CacheOnSelect(row)
  \/ \E inv \in inflight : CacheLoadResolved(inv)
  \/ \E inv \in inflight : CacheLoadRejected(inv)

SpecCache == CacheInit /\ [][CacheNext]_vars

----------------------------------------------------------------------------
(* index.js: the page that asks /match_pdf for the page and the anchors *)

QuoteFields == <<"sourceQuote", "source_quote", "SourceQuote", "SOURCEQUOTE">>

\* A page of the record list: identifier and quote, identifier, URL and
\* quote, identifier without quote, URL and quote without identifier, nothing.
ItemsMatch ==
  << [Id |-> 1, onedriveId |-> "d1", sourceQuote |-> "q1"],
     [Id |-> 2, OneDriveId |-> "d2", pdfWebUrl |-> "u2", source_quote |-> "q2"],
     [Id |-> 3, onedriveId |-> "d3", sourceQuote |-> ""],
     [Id |-> 4, pdfUrl |-> "u4", SourceQuote |-> "q4"],
     [Id |-> 5, onedriveId |-> Null] >>

\* pdfDoc.numPages of every document of the list
NumPages == 2

\* The bodies /match_pdf may answer with: page missing, a page of the
\* document, a page past its end; anchors missing or present.
MatchAnswers ==
  [page : {Null, "1", "2", "3"},
   anchors : {Null, <<>>, << <<"A", "endash", "a">> >>}]

\* The page the body names, as a number
PageNames == <<"1", "2", "3">>

\* setPageNumber(1) in place of setPageNumber(mj.page || 1)
pageAlwaysOne(page) == 1

\* mj.page || 1
pageOrOne(page) ==
  CASE page = "2" -> 2
    [] page = "3" -> 3
    [] OTHER -> 1

\* mj.anchors || []
anchorsOrNone(anchors) == IF anchors = Null THEN <<>> ELSE anchors

MsgMatchHttp == "match_pdf failed: HTTP"
MsgMatchThrew == "Nie udalo sie dopasowac cytatu przez GPT"
MsgNoQuote == "Brak sourceQuote - pokazuje PDF bez podswietlenia."
MsgNoId == "Brak onedriveId - bez GPT match."
\* `GPT match: strona ${mj.page} ...`
MsgGptMatch(page) ==
  CASE page = "1" -> "GPT match: strona 1"
    [] page = "2" -> "GPT match: strona 2"
    [] page = "3" -> "GPT match: strona 3"
    [] OTHER -> "GPT match: strona undefined"

\* onSelect(row) up to its first await or return.
MatchOnSelect(row) ==
  /\ selected' = row
  /\ highlightTokens' = <<>>
  /\ pageNumber' = 1
  /\ pdfDoc' = NoDoc
  /\ UNCHANGED <<items, pdfjs, pdfCache, now, destroyed, warm, restVars, editVars>>
  /\ IF pdfjs # "ready" THEN
       /\ pdfMessage' = MsgPdfjsLoading
       /\ UNCHANGED <<loadingPdf, opened, inflight>>
     ELSE IF proxiedUrl(row) = <<>> THEN
       /\ pdfMessage' = MsgNoSource
       /\ UNCHANGED <<loadingPdf, opened, inflight>>
     ELSE
       /\ opened < OpensEnd
       /\ pdfMessage' = MsgNone
       /\ loadingPdf' = TRUE
       /\ opened' = opened + 1
       /\ inflight' = inflight \cup
            {[row |-> row, doc |-> docOf(row, opened + 1), at |-> "getDocument"]}

\* The try block leaves through finally: setLoadingPdf(false).
MatchFinish(inv, message, page, tokens) ==
  /\ inflight' = inflight \ {inv}
  /\ pdfMessage' = message
  /\ pageNumber' = page
  /\ highlightTokens' = tokens
  /\ loadingPdf' = FALSE

\* if (oneDriveId) in place of if (oneDriveId && quote)
MatchLoadResolvedIdOnly(inv) ==
  LET oneDriveId == pickField(inv.row, IdFields)
      quote == pickField(inv.row, QuoteFields)
  IN
  /\ inv \in inflight
  /\ inv.at = "getDocument"
  /\ pdfDoc' = inv.doc
  /\ UNCHANGED <<items, pdfjs, selected, pdfCache, now, opened, destroyed, warm, restVars, editVars>>
  /\ IF oneDriveId # Null THEN
       /\ inflight' = (inflight \ {inv}) \cup {[inv EXCEPT !.at = "fetch"]}
       /\ UNCHANGED <<pageNumber, pdfMessage, loadingPdf, highlightTokens>>
     ELSE
       MatchFinish(inv, IF quote = Null THEN MsgNoQuote ELSE MsgNoId, 1, <<>>)

\* getDocument(...).promise resolves: setPdfDoc(doc), then the matcher is
\* called when the record has an identifier and a quote.
MatchLoadResolved(inv) ==
  LET oneDriveId == pickField(inv.row, IdFields)
      quote == pickField(inv.row, QuoteFields)
  IN
  /\ inv \in inflight
  /\ inv.at = "getDocument"
  /\ pdfDoc' = inv.doc
  /\ UNCHANGED <<items, pdfjs, selected, pdfCache, now, opened, destroyed, warm, restVars, editVars>>
  /\ IF oneDriveId # Null /\ quote # Null THEN
       /\ inflight' = (inflight \ {inv}) \cup {[inv EXCEPT !.at = "fetch"]}
       /\ UNCHANGED <<pageNumber, pdfMessage, loadingPdf, highlightTokens>>
     ELSE
       MatchFinish(inv, IF quote = Null THEN MsgNoQuote ELSE MsgNoId, 1, <<>>)

\* getDocument(...).promise rejects: the outer catch.
MatchLoadRejected(inv) ==
  /\ inv \in inflight
  /\ inv.at = "getDocument"
  /\ inflight' = inflight \ {inv}
  /\ pdfMessage' = MsgLoadFailed
  /\ loadingPdf' = FALSE
  /\ UNCHANGED <<items, pdfjs, selected, pdfDoc, pageNumber, highlightTokens,
                 pdfCache, now, opened, destroyed, warm, restVars, editVars>>

\* fetch(/match_pdf) resolves with a response: mr.ok decides which body
\* reader is awaited next.
MatchFetchResolved(inv, ok) ==
  /\ inv \in inflight
  /\ inv.at = "fetch"
  /\ inflight' = (inflight \ {inv}) \cup
                   {[inv EXCEPT !.at = IF ok THEN "json" ELSE "text"]}
  /\ UNCHANGED <<items, pdfjs, selected, pdfDoc, pageNumber, pdfMessage,
                 loadingPdf, highlightTokens, pdfCache, now, opened, destroyed,
                 warm, restVars, editVars>>

\* fetch, mr.text() or mr.json() rejects: the inner catch.
MatchThrew(inv) ==
  /\ inv \in inflight
  /\ inv.at \in {"fetch", "text", "json"}
  /\ MatchFinish(inv, MsgMatchThrew, 1, <<>>)
  /\ UNCHANGED <<items, pdfjs, selected, pdfDoc, pdfCache, now, opened,
                 destroyed, warm, restVars, editVars>>

\* The !mr.ok branch without setPageNumber(1) and setHighlightTokens([])
MatchNotOkKeepsView(inv) ==
  /\ inv \in inflight
  /\ inv.at = "text"
  /\ inflight' = inflight \ {inv}
  /\ pdfMessage' = MsgMatchHttp
  /\ loadingPdf' = FALSE
  /\ UNCHANGED <<items, pdfjs, selected, pdfDoc, pageNumber, highlightTokens,
                 pdfCache, now, opened, destroyed, warm, restVars, editVars>>

\* mr.text() resolves on a response that is not ok.
MatchNotOk(inv) ==
  /\ inv \in inflight
  /\ inv.at = "text"
  /\ MatchFinish(inv, MsgMatchHttp, 1, <<>>)
  /\ UNCHANGED <<items, pdfjs, selected, pdfDoc, pdfCache, now, opened,
                 destroyed, warm, restVars, editVars>>

\* mr.json() resolves with the matcher's answer mj.
MatchAnswered(inv, mj) ==
  /\ inv \in inflight
  /\ inv.at = "json"
  /\ MatchFinish(inv, MsgGptMatch(mj.page), pageOrOne(mj.page),
                 anchorsOrNone(mj.anchors))
  /\ UNCHANGED <<items, pdfjs, selected, pdfDoc, pdfCache, now, opened,
                 destroyed, warm, restVars, editVars>>

\* "Poprzednia strona": setPageNumber((p) => Math.max(1, p - 1))
PrevPage ==
  /\ selected # NoRow
  /\ pageNumber' = IF pageNumber - 1 > 1 THEN pageNumber - 1 ELSE 1
  /\ UNCHANGED <<items, pdfjs, selected, pdfDoc, pdfMessage, loadingPdf,
                 highlightTokens, pdfCache, now, opened, inflight, destroyed,
                 warm, restVars, editVars>>

\* "Nastepna strona": disabled={!pdfDoc || pageNumber >= (pdfDoc?.numPages || 1)}
NextPage ==
  /\ selected # NoRow
  /\ pdfDoc # NoDoc
  /\ pageNumber < NumPages
  /\ pageNumber' = pageNumber + 1
  /\ UNCHANGED <<items, pdfjs, selected, pdfDoc, pdfMessage, loadingPdf,
                 highlightTokens, pdfCache, now, opened, inflight, destroyed,
                 warm, restVars, editVars>>

MatchInit ==
  /\ warm = 0
  /\ normBase = <<>>
  /\ normText = <<>>
  /\ normCalls = 0
  /\ normArg = <<>>
  /\ normOut = <<>>
  /\ RenderIdle
  /\ EditIdle
  /\ FinderIdle
  /\ items = ItemsMatch
  /\ pdfjs = "loading"
  /\ selected = NoRow
  /\ pdfDoc = NoDoc
  /\ pageNumber = 1
  /\ pdfMessage = MsgNone
  /\ loadingPdf = FALSE
  /\ highlightTokens = <<>>
  /\ pdfCache = <<>>
  /\ now = 0
  /\ opened = 0
  /\ inflight = {}
  /\ destroyed = {}

MatchNext ==
  \/ PdfjsLoaded
  \/ PdfjsFailed
  \/ \E row \in Rows : MatchOnSelect(row)
  \/ \E inv \in inflight : MatchLoadResolved(inv)
  \/ \E inv \in inflight : MatchLoadRejected(inv)
  \/ \E inv \in inflight, ok \in BOOLEAN : MatchFetchResolved(inv, ok)
  \/ \E inv \in inflight : MatchThrew(inv)
  \/ \E inv \in inflight : MatchNotOk(inv)
  \/ \E inv \in inflight, mj \in MatchAnswers : MatchAnswered(inv, mj)
  \/ PrevPage
  \/ NextPage

SpecMatch == MatchInit /\ [][MatchNext]_vars

----------------------------------------------------------------------------
(* index.js: normChar and normalizeForSearch *)

\* A JavaScript string is a sequence of UTF-16 code units.  The code units
\* explored, by name:
\*   A a          U+0041, U+0061
\*   SIGMA        U+03A3; toLowerCase yields sigma U+03C3 or fsigma U+03C2
\*   sp           U+0020, matched by \s
\*   shy          U+00AD, the soft hyphen
\*   endash emdash ldquo rdquo bdquo rsquo lsquo
\*                U+2013 U+2014 U+201C U+201D U+201E U+2019 U+2018
\*   hyphen quot apos   U+002D U+0022 U+0027
\*   hi lo        U+D801, U+DC00: together U+10400, whose lowercase is
\*                U+10428 = hi lo2 (lo2 is U+DC28); apart, lone surrogates

\* length of the longest string explored
MaxStrLen == 3

Typographic == {"endash", "emdash", "ldquo", "rdquo", "bdquo", "rsquo", "lsquo"}

CodeUnits ==
  {"A", "a", "SIGMA", "sp", "shy", "hyphen", "quot", "apos", "hi", "lo"}
    \cup Typographic

Strings == UNION {[1..n -> CodeUnits] : n \in 0..MaxStrLen}

\* normChar(ch): map[ch] || ch
normChar(ch) ==
  CASE ch \in {"endash", "emdash"} -> "hyphen"
    [] ch \in {"ldquo", "rdquo", "bdquo"} -> "quot"
    [] ch \in {"rsquo", "lsquo"} -> "apos"
    [] OTHER -> ch

\* s.split("").map(normChar).join("")
mapChars(s) == [i \in 1..Len(s) |-> normChar(s[i])]

\* Position i of s holds a code unit of a cased letter (Unicode Cased); a
\* surrogate counts only as half of a pair.
Cased(s, i) ==
  \/ s[i] \in {"A", "a", "SIGMA", "sigma", "fsigma"}
  \/ s[i] = "hi" /\ i < Len(s) /\ s[i + 1] \in {"lo", "lo2"}
  \/ s[i] \in {"lo", "lo2"} /\ i > 1 /\ s[i - 1] = "hi"

\* Unicode Case_Ignorable among the code units explored
CaseIgnorable(ch) == ch \in {"shy", "apos", "rsquo", "lsquo"}

\* The Final_Sigma condition of SpecialCasing.txt, which toLowerCase applies:
\* a cased letter and then only case-ignorable characters before position i,
\* and no such sequence ending in a cased letter after it.
FinalSigma(s, i) ==
  /\ \E j \in 1..(i - 1) :
        /\ Cased(s, j)
        /\ \A k \in (j + 1)..(i - 1) : CaseIgnorable(s[k])
  /\ ~ \E j \in (i + 1)..Len(s) :
        /\ Cased(s, j)
        /\ \A k \in (i + 1)..(j - 1) : CaseIgnorable(s[k])

\* String.prototype.toLowerCase
toLowerCase(s) ==
  [i \in 1..Len(s) |->
     CASE s[i] = "A" -> "a"
       [] s[i] = "SIGMA" -> IF FinalSigma(s, i) THEN "fsigma" ELSE "sigma"
       [] s[i] = "lo" /\ i > 1 /\ s[i - 1] = "hi" -> "lo2"
       [] OTHER -> s[i]]

IsSoftHyphen(ch) == ch = "shy"
IsWhitespace(ch) == ch = "sp"
NotSoftHyphen(ch) == ~ IsSoftHyphen(ch)
NotWhitespace(ch) == ~ IsWhitespace(ch)

\* normalizeForSearch(s)
normalizeForSearch(s) ==
  IF s = <<>> THEN <<>>
  ELSE SelectSeq(SelectSeq(toLowerCase(mapChars(s)), NotSoftHyphen),
                 NotWhitespace)

\* The ASCII character a typographic dash or quote stands for.
AsciiOf(ch) ==
  CASE ch \in {"endash", "emdash"} -> "hyphen"
    [] ch \in {"ldquo", "rdquo", "bdquo"} -> "quot"
    [] OTHER -> "apos"

replaceAt(s, i, ch) == [s EXCEPT ![i] = ch]
insertAt(s, i, ch) == SubSeq(s, 1, i - 1) \o <<ch>> \o SubSeq(s, i, Len(s))
deleteAt(s, i) == SubSeq(s, 1, i - 1) \o SubSeq(s, i + 1, Len(s))

\* The other source spells the text differently, before anything is
\* normalized: a typographic dash or quote for the ASCII one or back, ...
Respell(text) ==
  /\ normCalls = 0
  /\ normText' = text
  /\ UNCHANGED <<pageVars, beyondPage, editVars, normBase, normCalls, normArg, normOut>>

Asciify(i) ==
  /\ i \in 1..Len(normText)
  /\ normText[i] \in Typographic
  /\ Respell(replaceAt(normText, i, AsciiOf(normText[i])))

Typeset(i, ch) ==
  /\ i \in 1..Len(normText)
  /\ ch \in Typographic
  /\ normText[i] = AsciiOf(ch)
  /\ Respell(replaceAt(normText, i, ch))

\* ... another letter case, ...
SwapCase(i) ==
  /\ i \in 1..Len(normText)
  /\ normText[i] \in {"A", "a"}
  /\ Respell(replaceAt(normText, i, IF normText[i] = "A" THEN "a" ELSE "A"))

\* ... whitespace or a soft hyphen more, or one less.
InsertBlank(i, ch) ==
  /\ Len(normText) < MaxStrLen
  /\ i \in 1..(Len(normText) + 1)
  /\ ch \in {"sp", "shy"}
  /\ Respell(insertAt(normText, i, ch))

DeleteBlank(i) ==
  /\ i \in 1..Len(normText)
  /\ normText[i] \in {"sp", "shy"}
  /\ Respell(deleteAt(normText, i))

\* renderPage: const ns = normalizeForSearch(item.str)
NormalizeText ==
  /\ normCalls = 0
  /\ normCalls' = 1
  /\ normArg' = normText
  /\ normOut' = normalizeForSearch(normText)
  /\ UNCHANGED <<pageVars, beyondPage, editVars, normBase, normText>>

\* normalizeForSearch applied to its own result
NormalizeAgain ==
  /\ normCalls = 1
  /\ normCalls' = 2
  /\ normArg' = normOut
  /\ normOut' = normalizeForSearch(normOut)
  /\ UNCHANGED <<pageVars, beyondPage, editVars, normBase, normText>>

NormInit ==
  /\ warm = 0
  /\ items = <<>>
  /\ pdfjs = "loading"
  /\ selected = NoRow
  /\ pdfDoc = NoDoc
  /\ pageNumber = 1
  /\ pdfMessage = MsgNone
  /\ loadingPdf = FALSE
  /\ highlightTokens = <<>>
  /\ pdfCache = <<>>
  /\ now = 0
  /\ opened = 0
  /\ inflight = {}
  /\ destroyed = {}
  /\ normBase \in Strings
  /\ normText = normBase
  /\ normCalls = 0
  /\ normArg = <<>>
  /\ normOut = <<>>
  /\ RenderIdle
  /\ EditIdle
  /\ FinderIdle

NormNext ==
  \/ \E i \in 1..MaxStrLen : Asciify(i)
  \/ \E i \in 1..MaxStrLen, ch \in Typographic : Typeset(i, ch)
  \/ \E i \in 1..MaxStrLen : SwapCase(i)
  \/ \E i \in 1..MaxStrLen, ch \in {"sp", "shy"} : InsertBlank(i, ch)
  \/ \E i \in 1..MaxStrLen : DeleteBlank(i)
  \/ NormalizeText
  \/ NormalizeAgain

SpecNorm == NormInit /\ [][NormNext]_vars

----------------------------------------------------------------------------
(* index.js: renderPage and the effect that starts it *)

\* runs of renderPage explored
MaxRenders == 3

\* The document on screen while rendering is explored
RenderDoc == docOf(ItemsMatch[1], 1)

\* textContent.items of a page, item.str only
pageItems(page) ==
  CASE page = 1 -> << <<"a", "emdash", "A">>, <<"hyphen", "shy", "a">>,
                      <<"sp">> >>
    [] page = 2 -> << <<"A", "sp", "hyphen", "A">>, <<>> >>
    [] OTHER -> << <<"a">> >>

\* What /match_pdf may answer while the document is on screen
RenderAnswers ==
  [page : {Null, "2", "3"},
   anchors : {Null,
              << <<"A", "endash", "a">> >>,
              << <<"sp">>, <<"shy", "sp">> >>,
              << <<"sp">>, <<"hyphen", "A">> >>}]

\* ns.includes(w)
includes(ns, w) ==
  \E start \in 0..(Len(ns) - Len(w)) :
     SubSeq(ns, start + 1, start + Len(w)) = w

\* .filter(() => true): no anchor is dropped
KeepAny(s) == TRUE

\* .filter(Boolean) on strings
NotEmpty(s) == s # <<>>

wantedUnfiltered(tokens) ==
  [k \in 1..Len(tokens) |-> normalizeForSearch(tokens[k])]

\* (highlightTokens || []).map(normalizeForSearch).filter(Boolean)
wanted(tokens) ==
  SelectSeq([k \in 1..Len(tokens) |-> normalizeForSearch(tokens[k])], NotEmpty)

\* wanted.length > 0 && wanted.some((w) => ns.includes(w))
isHit(str, tokens) ==
  LET ns == normalizeForSearch(str)
      w == wanted(tokens)
  IN Len(w) > 0 /\ \E k \in 1..Len(w) : includes(ns, w[k])

\* The spans textContent.items.forEach appends
spansOf(page, tokens) ==
  LET its == pageItems(page)
  IN [i \in 1..Len(its) |-> [str |-> its[i], hit |-> isHit(its[i], tokens)]]

MsgRenderFailed == "renderPage failed"

\* useEffect(..., [pdfDoc, pageNumber, highlightTokens]): after a commit that
\* changed one of them renderPage() runs up to its first await.
startRender(doc, page, tokens) ==
  IF doc = NoDoc \/ pdfjs # "ready" THEN UNCHANGED renderVars
  ELSE /\ rendered < MaxRenders
       /\ rendered' = rendered + 1
       /\ renders' = renders \cup
            {[id |-> rendered + 1, doc |-> doc, page |-> page,
              tokens |-> tokens, at |-> "getPage"]}
       /\ UNCHANGED <<canvas, textLayer>>

\* "Poprzednia strona" and the effect of the commit
RenderPrevPage ==
  /\ pageNumber > 1
  /\ pageNumber' = pageNumber - 1
  /\ startRender(pdfDoc, pageNumber', highlightTokens)
  /\ UNCHANGED <<items, pdfjs, selected, pdfDoc, pdfMessage, loadingPdf,
                 highlightTokens, pdfCache, now, opened, inflight, destroyed,
                 warm, normVars, finderVars, editVars>>

\* "Nastepna strona" and the effect of the commit
RenderNextPage ==
  /\ pdfDoc # NoDoc
  /\ pageNumber < NumPages
  /\ pageNumber' = pageNumber + 1
  /\ startRender(pdfDoc, pageNumber', highlightTokens)
  /\ UNCHANGED <<items, pdfjs, selected, pdfDoc, pdfMessage, loadingPdf,
                 highlightTokens, pdfCache, now, opened, inflight, destroyed,
                 warm, normVars, finderVars, editVars>>

\* mr.json() resolves with mj, and the effect of the commit
RenderMatched(inv, mj) ==
  /\ inv \in inflight
  /\ inv.at = "json"
  /\ MatchFinish(inv, MsgGptMatch(mj.page), pageOrOne(mj.page),
                 anchorsOrNone(mj.anchors))
  /\ startRender(pdfDoc, pageNumber', highlightTokens')
  /\ UNCHANGED <<items, pdfjs, selected, pdfDoc, pdfCache, now, opened,
                 destroyed, warm, normVars, finderVars, editVars>>

\* A run of renderPage leaves through its catch.
RenderFailed(run) ==
  /\ run \in renders
  /\ renders' = renders \ {run}
  /\ pdfMessage' = MsgRenderFailed
  /\ UNCHANGED <<items, pdfjs, selected, pdfDoc, pageNumber, loadingPdf,
                 highlightTokens, pdfCache, now, opened, inflight, destroyed,
                 warm, normVars, finderVars, editVars, rendered, canvas, textLayer>>

\* pdfDoc.getPage(pageNumber) resolves: the canvas is resized, which blanks
\* it, the text layer is emptied, and page.render starts.
RenderGotPage(run) ==
  /\ run \in renders
  /\ run.at = "getPage"
  /\ run.page \in 1..NumPages
  /\ canvas' = NoCanvas
  /\ textLayer' = <<>>
  /\ renders' = (renders \ {run}) \cup {[run EXCEPT !.at = "render"]}
  /\ UNCHANGED <<pageVars, normVars, finderVars, editVars, rendered>>

\* page.render(...).promise resolves: the page is on the canvas.
RenderPainted(run) ==
  /\ run \in renders
  /\ run.at = "render"
  /\ canvas' = [doc |-> run.doc, page |-> run.page]
  /\ renders' = (renders \ {run}) \cup {[run EXCEPT !.at = "getTextContent"]}
  /\ UNCHANGED <<pageVars, normVars, finderVars, editVars, rendered, textLayer>>

\* page.getTextContent() resolves: one span per item is appended.
RenderGotText(run) ==
  /\ run \in renders
  /\ run.at = "getTextContent"
  /\ textLayer' = textLayer \o spansOf(run.page, run.tokens)
  /\ renders' = renders \ {run}
  /\ UNCHANGED <<pageVars, normVars, finderVars, editVars, rendered, canvas>>

\* The document is on screen on page 1, its first render is under way and
\* the matcher has not answered yet.
RenderInit ==
  /\ warm = 0
  /\ items = ItemsMatch
  /\ pdfjs = "ready"
  /\ selected = ItemsMatch[1]
  /\ pdfDoc = RenderDoc
  /\ pageNumber = 1
  /\ pdfMessage = MsgNone
  /\ loadingPdf = TRUE
  /\ highlightTokens = <<>>
  /\ pdfCache = <<>>
  /\ now = 0
  /\ opened = 1
  /\ inflight = {[row |-> ItemsMatch[1], doc |-> RenderDoc, at |-> "json"]}
  /\ destroyed = {}
  /\ normBase = <<>>
  /\ normText = <<>>
  /\ normCalls = 0
  /\ normArg = <<>>
  /\ normOut = <<>>
  /\ rendered = 1
  /\ renders = {[id |-> 1, doc |-> RenderDoc, page |-> 1, tokens |-> <<>>,
                 at |-> "getPage"]}
  /\ canvas = NoCanvas
  /\ textLayer = <<>>
  /\ FinderIdle
  /\ EditIdle

RenderNext ==
  \/ RenderPrevPage
  \/ RenderNextPage
  \/ \E inv \in inflight, mj \in RenderAnswers : RenderMatched(inv, mj)
  \/ \E run \in renders : RenderFailed(run)
  \/ \E run \in renders : RenderGotPage(run)
  \/ \E run \in renders : RenderPainted(run)
  \/ \E run \in renders : RenderGotText(run)

SpecRender == RenderInit /\ [][RenderNext]_vars

----------------------------------------------------------------------------
(* Fragment Indexer and Quote Locator, after sections 4.1 to 4.3 of the    *)
(* specification (collapsing profile, exact-phrase strategy)                *)

\* fragments per page explored
MaxFrags == 2
\* code units per fragment explored
MaxFragLen == 2

\* Step (2) of the Normalizer, one character at a time
lowerChar(ch) ==
  CASE ch = "A" -> "a"
    [] ch = "H" -> "h"
    [] ch = "W" -> "w"
    [] ch = "SIGMA" -> "sigma"
    [] OTHER -> ch

\* Steps (1) and (2) of the Normalizer
substLower(ch) == lowerChar(normChar(ch))

EmptyIndex == [text |-> <<>>, map |-> <<>>]

\* The buffer is empty or its last character is a separator.
endsInSeparator(idx) ==
  Len(idx.text) = 0 \/ idx.text[Len(idx.text)] = "sp"

emitChar(idx, ch, f) ==
  [text |-> Append(idx.text, ch), map |-> Append(idx.map, f)]

\* One character of fragment f: whitespace emits a separator unless the
\* buffer already ends in one; anything else is emitted.
indexChar(idx, ch, f) ==
  IF IsWhitespace(ch)
  THEN IF endsInSeparator(idx) THEN idx ELSE emitChar(idx, "sp", f)
  ELSE emitChar(idx, substLower(ch), f)

RECURSIVE indexChars(_, _, _, _)
indexChars(idx, str, i, f) ==
  IF i > Len(str) THEN idx
  ELSE indexChars(indexChar(idx, str[i], f), str, i + 1, f)

endFragmentBare(idx, f) == idx

\* After a fragment's characters: one synthetic separator, attributed to the
\* fragment just finished, unless the buffer already ends in one.
endFragment(idx, f) ==
  IF endsInSeparator(idx) THEN idx ELSE emitChar(idx, "sp", f)

RECURSIVE indexFragments(_, _, _)
indexFragments(idx, fs, k) ==
  IF k > Len(fs) THEN idx
  ELSE indexFragments(endFragment(indexChars(idx, fs[k], 1, k - 1), k - 1),
                      fs, k + 1)

trimTrailingKeepMap(idx) ==
  IF Len(idx.text) > 0 /\ idx.text[Len(idx.text)] = "sp"
  THEN [text |-> SubSeq(idx.text, 1, Len(idx.text) - 1), map |-> idx.map]
  ELSE idx

\* The trailing separator and its map entry are dropped.
trimTrailing(idx) ==
  IF Len(idx.text) > 0 /\ idx.text[Len(idx.text)] = "sp"
  THEN [text |-> SubSeq(idx.text, 1, Len(idx.text) - 1),
        map |-> SubSeq(idx.map, 1, Len(idx.map) - 1)]
  ELSE idx

\* buildIndex(fragments) -> (CanonicalString, IndexMap); fragment indices
\* count from 0.
buildIndex(fs) == trimTrailing(indexFragments(EmptyIndex, fs, 1))

\* normalize(raw) under the collapsing profile
normalizeCollapsing(raw) == buildIndex(<<raw>>).text

\* Offsets (from 0) at which n occurs in text
occurrences(n, text) ==
  {start \in 0..(Len(text) - Len(n)) :
     SubSeq(text, start + 1, start + Len(n)) = n}

locateStartOnly(raw, text, map) ==
  LET n == normalizeCollapsing(raw)
      at == occurrences(n, text)
  IN IF at = {} \/ n = <<>> THEN NotFound
     ELSE {map[Min(at) + 1]}

\* locate(needle, canonical, map): the first occurrence of the collapsed
\* needle, projected through the map.  An empty needle locates nothing.
locate(raw, text, map) ==
  LET n == normalizeCollapsing(raw)
      at == occurrences(n, text)
  IN IF at = {} \/ n = <<>> THEN NotFound
     ELSE {map[i] : i \in (Min(at) + 1)..(Min(at) + Len(n))}

\* The page as mounted: nothing selected, nothing loaded, nothing rendered.
ViewerIdle ==
  /\ warm = 0
  /\ items = <<>>
  /\ pdfjs = "loading"
  /\ selected = NoRow
  /\ pdfDoc = NoDoc
  /\ pageNumber = 1
  /\ pdfMessage = MsgNone
  /\ loadingPdf = FALSE
  /\ highlightTokens = <<>>
  /\ pdfCache = <<>>
  /\ now = 0
  /\ opened = 0
  /\ inflight = {}
  /\ destroyed = {}
  /\ normBase = <<>>
  /\ normText = <<>>
  /\ normCalls = 0
  /\ normArg = <<>>
  /\ normOut = <<>>
  /\ RenderIdle
  /\ EditIdle

IndexUnits == {"A", "sp", "emdash"}

FragmentTexts == UNION {[1..n -> IndexUnits] : n \in 0..MaxFragLen}

FragmentSeqs == UNION {[1..n -> FragmentTexts] : n \in 0..MaxFrags}

ExampleFragments ==
  << <<"H", "e", "l", "l", "o", "sp">>, <<"W", "o", "r", "l", "d">> >>

ExampleNeedle ==
  <<"h", "e", "l", "l", "o", "sp", "w", "o", "r", "l", "d">>

Needles ==
  {<<"A", "sp", "sp", "a">>, <<"hyphen">>, <<"sp">>, ExampleNeedle}

IndexInit ==
  /\ ViewerIdle
  /\ frags \in FragmentSeqs \cup {ExampleFragments}
  /\ needle \in Needles
  /\ canonical = <<>>
  /\ indexMap = <<>>
  /\ located = NotFound
  /\ finderAt = "fragments"
  /\ scanDoc = <<>>
  /\ pageLimit = 0
  /\ requested = <<>>

\* buildIndex(fragments)
BuildIndex ==
  /\ finderAt = "fragments"
  /\ canonical' = buildIndex(frags).text
  /\ indexMap' = buildIndex(frags).map
  /\ finderAt' = "indexed"
  /\ UNCHANGED <<pageVars, normVars, renderVars, editVars, frags, needle, located,
                 scanDoc, pageLimit, requested>>

\* locate(needle, canonical, map)
Locate ==
  /\ finderAt = "indexed"
  /\ located' = locate(needle, canonical, indexMap)
  /\ finderAt' = "located"
  /\ UNCHANGED <<pageVars, normVars, renderVars, editVars, frags, needle, canonical,
                 indexMap, scanDoc, pageLimit, requested>>

IndexNext == BuildIndex \/ Locate

SpecIndex == IndexInit /\ [][IndexNext]_vars

----------------------------------------------------------------------------
(* The page scanner: scan(document handle, needle, pageLimit) *)

\* pages per document explored
MaxScanPages == 3
\* largest page limit explored
MaxPageLimit == 3

\* A page whose fragments hold the quote across a fragment boundary, a page
\* of other text, a page without text.
QuotePage == << <<"A", "sp">>, <<"A">> >>
OtherPage == << <<"emdash">> >>
BlankPage == <<>>
ScanPages == {QuotePage, OtherPage, BlankPage}

ScanNeedle == <<"A", "sp", "sp", "a">>

\* The document of the scan-limit example: 10 pages, the quote on page 7 only
ExampleDocument ==
  [p \in 1..10 |-> IF p = 7 THEN QuotePage ELSE OtherPage]
ExamplePageLimit == 3

ScanDocuments ==
  UNION {[1..n -> ScanPages] : n \in 0..MaxScanPages} \cup {ExampleDocument}

\* The whole document is in range: the page limit is not applied.
lastPageUnlimited(doc, limit) == Len(doc)

\* min(documentPageCount, pageLimit)
lastPage(doc, limit) == IF Len(doc) < limit THEN Len(doc) ELSE limit

\* The locator found the needle.
isMatch(raw, index) ==
  /\ normalizeCollapsing(raw) # <<>>
  /\ occurrences(normalizeCollapsing(raw), index.text) # {}

\* The scan asks the loader for the fragments of the next page of the range.
ScanRequestPage ==
  /\ finderAt = "next"
  /\ Len(requested) < lastPage(scanDoc, pageLimit)
  /\ requested' = Append(requested, Len(requested) + 1)
  /\ finderAt' = "decoding"
  /\ UNCHANGED <<pageVars, normVars, renderVars, editVars, frags, needle, canonical,
                 indexMap, located, scanDoc, pageLimit>>

\* The loader hands over the fragments of the page: build its index, run
\* the locator, stop on a match.
ScanPageDecoded ==
  LET page == requested[Len(requested)]
      index == buildIndex(scanDoc[page])
  IN
  /\ finderAt = "decoding"
  /\ frags' = scanDoc[page]
  /\ canonical' = index.text
  /\ indexMap' = index.map
  /\ located' = locate(needle, index.text, index.map)
  /\ finderAt' = IF isMatch(needle, index) THEN "found" ELSE "next"
  /\ UNCHANGED <<pageVars, normVars, renderVars, editVars, needle, scanDoc, pageLimit,
                 requested>>

\* The loader fails to decode the page: the page is skipped.
ScanPageFailed ==
  /\ finderAt = "decoding"
  /\ finderAt' = "next"
  /\ UNCHANGED <<pageVars, normVars, renderVars, editVars, frags, needle, canonical,
                 indexMap, located, scanDoc, pageLimit, requested>>

\* No page of the range matched: NotFound.
ScanExhausted ==
  /\ finderAt = "next"
  /\ Len(requested) >= lastPage(scanDoc, pageLimit)
  /\ located' = NotFound
  /\ finderAt' = "notfound"
  /\ UNCHANGED <<pageVars, normVars, renderVars, editVars, frags, needle, canonical,
                 indexMap, scanDoc, pageLimit, requested>>

ScanInit ==
  /\ ViewerIdle
  /\ scanDoc \in ScanDocuments
  /\ pageLimit \in 1..MaxPageLimit
  /\ needle = ScanNeedle
  /\ requested = <<>>
  /\ frags = <<>>
  /\ canonical = <<>>
  /\ indexMap = <<>>
  /\ located = NotFound
  /\ finderAt = "next"

ScanNext ==
  \/ ScanRequestPage
  \/ ScanPageDecoded
  \/ ScanPageFailed
  \/ ScanExhausted

SpecScan == ScanInit /\ [][ScanNext]_vars

----------------------------------------------------------------------------
(* part_001: updateStatus, saveEdits and the edit panel *)

\* updateStatus and saveEdits calls explored
MaxCalls == 2

\* meta?.pk || "Id"
pk == "Id"

\* A page of the record list whose records name no PDF: selecting one starts
\* no load.
ItemsEdit ==
  << [Id |-> 1, Status |-> "new", Klient |-> "k1"],
     [Id |-> 2, Status |-> "new", klient |-> "k2"] >>

\* The status buttons of the details pane
Statuses == {"confirmed", "rejected"}

\* What the operator types into the field Klient
Typed == {"k9"}

MsgPatchFailed == "PATCH failed"
MsgFetchFailed == "Failed to fetch"

\* The table with the record `id` replaced by f(record)
withStatus(table, id, status) ==
  [i \in 1..Len(table) |->
     IF table[i][pk] = id
       THEN [k \in DOMAIN table[i] \cup {"Status"} |->
               IF k = "Status" THEN status ELSE table[i][k]]
       ELSE table[i]]

withKlient(table, id, klient) ==
  [i \in 1..Len(table) |->
     IF table[i][pk] = id
       THEN [k \in DOMAIN table[i] \cup {"Klient"} |->
               IF k = "Klient" THEN klient ELSE table[i][k]]
       ELSE table[i]]

\* The record `id` of the table
recordOf(table, id) ==
  table[CHOOSE i \in 1..Len(table) : table[i][pk] = id]

\* prev.map((x) => (x[pk] === id ? updated : x))
replaceRow(table, id, updated) ==
  [i \in 1..Len(table) |-> IF table[i][pk] = id THEN updated ELSE table[i]]

\* { ...selected, Status: status }
spreadStatus(row, status) ==
  [k \in DOMAIN row \cup {"Status"} |->
     IF k = "Status" THEN status ELSE row[k]]

\* A status button of the details pane: updateStatus(selectedId, status) up
\* to its first await.  The handler closes over the `selected` of the render
\* that created it.
UpdateStatusClick(status) ==
  /\ selected # NoRow
  /\ calls < MaxCalls
  /\ calls' = calls + 1
  /\ saving' = saving \cup
       {[n |-> calls + 1, call |-> "updateStatus", id |-> selected[pk],
         arg |-> status, closure |-> selected, at |-> "post", body |-> <<>>]}
  /\ UNCHANGED <<pageVars, restVars, orders, loadingList, editOpen, editSaving,
                 editError, editForm>>

\* The POST resolves.  Not ok: alert and return.  Ok: the server has stored
\* the status and loadList() runs up to its fetch.
UpdateStatusPosted(c, ok) ==
  /\ c \in saving
  /\ c.call = "updateStatus"
  /\ c.at = "post"
  /\ IF ok THEN
       /\ orders' = withStatus(orders, c.id, c.arg)
       /\ saving' = (saving \ {c}) \cup {[c EXCEPT !.at = "list"]}
       /\ loadingList' = TRUE
     ELSE
       /\ saving' = saving \ {c}
       /\ UNCHANGED <<orders, loadingList>>
  /\ UNCHANGED <<pageVars, restVars, calls, editOpen, editSaving, editError,
                 editForm>>

\* The POST rejects: updateStatus rejects, nothing is caught or set.
UpdateStatusThrew(c) ==
  /\ c \in saving
  /\ c.call = "updateStatus"
  /\ c.at = "post"
  /\ saving' = saving \ {c}
  /\ UNCHANGED <<pageVars, restVars, orders, calls, loadingList, editOpen,
                 editSaving, editError, editForm>>

\* loadList: fetch(/orders) resolves with the server's records.
ListFetched(c) ==
  /\ c \in saving
  /\ c.at = "list"
  /\ saving' = (saving \ {c}) \cup {[c EXCEPT !.at = "listJson", !.body = orders]}
  /\ UNCHANGED <<pageVars, restVars, orders, calls, loadingList, editOpen,
                 editSaving, editError, editForm>>

\* loadList: fetch or r.json() rejects; finally setLoadingList(false), and
\* updateStatus rejects with it.
ListFailed(c) ==
  /\ c \in saving
  /\ c.at \in {"list", "listJson"}
  /\ saving' = saving \ {c}
  /\ loadingList' = FALSE
  /\ UNCHANGED <<pageVars, restVars, orders, calls, editOpen, editSaving,
                 editError, editForm>>

\* loadList: r.json() resolves: setItems, finally setLoadingList(false);
\* then updateStatus goes on with the `selected` it closed over:
\* if (selected && selected[pk] === id) setSelected({ ...selected, Status }).
UpdateStatusListed(c) ==
  /\ c \in saving
  /\ c.call = "updateStatus"
  /\ c.at = "listJson"
  /\ saving' = saving \ {c}
  /\ items' = c.body
  /\ loadingList' = FALSE
  /\ selected' = IF c.closure # NoRow /\ c.closure[pk] = c.id
                   THEN spreadStatus(c.closure, c.arg)
                   ELSE selected
  /\ UNCHANGED <<pdfjs, pdfDoc, pageNumber, pdfMessage, loadingPdf,
                 highlightTokens, pdfCache, now, opened, inflight, destroyed,
                 warm, restVars, orders, calls, editOpen, editSaving,
                 editError, editForm>>

\* "Edytuj" / "Zamknij edycje": setEditOpen((v) => !v)
EditToggle ==
  /\ selected # NoRow
  /\ editOpen' = ~ editOpen
  /\ UNCHANGED <<pageVars, restVars, orders, saving, calls, loadingList,
                 editSaving, editError, editForm>>

\* The operator types into the field Klient of the open panel.
EditType(text) ==
  /\ selected # NoRow
  /\ editOpen
  /\ editForm' = [editForm EXCEPT !.Klient = text]
  /\ UNCHANGED <<pageVars, restVars, orders, saving, calls, loadingList,
                 editOpen, editSaving, editError>>

\* "Anuluj": the form is reset to the values of selected, the panel closes.
EditCancel ==
  /\ selected # NoRow
  /\ editOpen
  /\ ~ editSaving
  /\ editError' = ""
  /\ editForm' = [Klient |-> firstNotNullish(selected, <<"Klient">>)]
  /\ editOpen' = FALSE
  /\ UNCHANGED <<pageVars, restVars, orders, saving, calls, loadingList,
                 editSaving>>

\* "Zapisz": saveEdits() up to its first await.
SaveEditsClick ==
  /\ selected # NoRow
  /\ editOpen
  /\ ~ editSaving
  /\ calls < MaxCalls
  /\ calls' = calls + 1
  /\ editSaving' = TRUE
  /\ editError' = ""
  /\ saving' = saving \cup
       {[n |-> calls + 1, call |-> "saveEdits", id |-> selected[pk],
         arg |-> editForm.Klient, closure |-> selected, at |-> "patch",
         body |-> <<>>]}
  /\ UNCHANGED <<pageVars, restVars, orders, loadingList, editOpen, editForm>>

\* The PATCH resolves.  Ok: the server has stored the fields and answers
\* with the record.  Not ok: r.text() is awaited next.
SaveEditsPatched(c, ok) ==
  /\ c \in saving
  /\ c.call = "saveEdits"
  /\ c.at = "patch"
  /\ IF ok THEN
       /\ orders' = withKlient(orders, c.id, c.arg)
       /\ saving' = (saving \ {c}) \cup
            {[c EXCEPT !.at = "json",
                       !.body = recordOf(withKlient(orders, c.id, c.arg), c.id)]}
     ELSE
       /\ saving' = (saving \ {c}) \cup {[c EXCEPT !.at = "text"]}
       /\ UNCHANGED orders
  /\ UNCHANGED <<pageVars, restVars, calls, loadingList, editOpen, editSaving,
                 editError, editForm>>

\* The catch and finally blocks of saveEdits
saveFailed(c, message) ==
  /\ saving' = saving \ {c}
  /\ editError' = message
  /\ editSaving' = FALSE
  /\ UNCHANGED <<pageVars, restVars, orders, calls, loadingList, editOpen,
                 editForm>>

\* r.text() settles (a rejection gives ""): throw new Error("PATCH failed ...")
SaveEditsNotOk(c) ==
  /\ c \in saving
  /\ c.call = "saveEdits"
  /\ c.at = "text"
  /\ saveFailed(c, MsgPatchFailed)

\* The PATCH or r.json() rejects.
SaveEditsThrew(c) ==
  /\ c \in saving
  /\ c.call = "saveEdits"
  /\ c.at \in {"patch", "json"}
  /\ saveFailed(c, MsgFetchFailed)

\* r.json() resolves with the record: setSelected(updated), the row of the
\* list is replaced, the panel closes; finally setEditSaving(false).
SaveEditsSaved(c) ==
  /\ c \in saving
  /\ c.call = "saveEdits"
  /\ c.at = "json"
  /\ saving' = saving \ {c}
  /\ selected' = c.body
  /\ items' = replaceRow(items, c.id, c.body)
  /\ editOpen' = FALSE
  /\ editSaving' = FALSE
  /\ UNCHANGED <<pdfjs, pdfDoc, pageNumber, pdfMessage, loadingPdf,
                 highlightTokens, pdfCache, now, opened, inflight, destroyed,
                 warm, restVars, orders, calls, loadingList, editError,
                 editForm>>

\* The list is on screen as the server holds it, pdf.js is loaded, nothing
\* is selected.
EditInit ==
  /\ warm = 0
  /\ normBase = <<>>
  /\ normText = <<>>
  /\ normCalls = 0
  /\ normArg = <<>>
  /\ normOut = <<>>
  /\ RenderIdle
  /\ FinderIdle
  /\ items = ItemsEdit
  /\ pdfjs = "ready"
  /\ selected = NoRow
  /\ pdfDoc = NoDoc
  /\ pageNumber = 1
  /\ pdfMessage = MsgNone
  /\ loadingPdf = FALSE
  /\ highlightTokens = <<>>
  /\ pdfCache = <<>>
  /\ now = 0
  /\ opened = 0
  /\ inflight = {}
  /\ destroyed = {}
  /\ orders = ItemsEdit
  /\ saving = {}
  /\ calls = 0
  /\ loadingList = FALSE
  /\ editOpen = FALSE
  /\ editSaving = FALSE
  /\ editError = ""
  /\ editForm = [Klient |-> ""]

EditNext ==
  \/ \E row \in Rows : CacheOnSelect(row)
  \/ \E status \in Statuses : UpdateStatusClick(status)
  \/ \E c \in saving, ok \in BOOLEAN : UpdateStatusPosted(c, ok)
  \/ \E c \in saving : UpdateStatusThrew(c)
  \/ \E c \in saving : ListFetched(c)
  \/ \E c \in saving : ListFailed(c)
  \/ \E c \in saving : UpdateStatusListed(c)
  \/ EditToggle
  \/ \E text \in Typed : EditType(text)
  \/ EditCancel
  \/ SaveEditsClick
  \/ \E c \in saving, ok \in BOOLEAN : SaveEditsPatched(c, ok)
  \/ \E c \in saving : SaveEditsNotOk(c)
  \/ \E c \in saving : SaveEditsThrew(c)
  \/ \E c \in saving : SaveEditsSaved(c)

SpecEdit == EditInit /\ [][EditNext]_vars

----------------------------------------------------------------------------
(* Claims about overlapping selections, checked under SpecMatch *)

\* The step continues the invocation inv of onSelect past one of its awaits.
Continues(inv) == inv \in inflight /\ inv \notin inflight'

\* C1: stale-result discard.  A continuation of onSelect(A) that runs after
\* another record B was selected writes none of the displayed document, the
\* page number, the highlight tokens and the status message.
C1_StaleResultDiscarded ==
  [][\A inv \in inflight :
       (Continues(inv) /\ inv.row # selected) =>
         UNCHANGED <<pdfDoc, pageNumber, highlightTokens, pdfMessage>>]_vars

----------------------------------------------------------------------------
(* Claims about normalizeForSearch, checked under SpecNorm *)

\* No surrogate stands alone: every hi is followed by lo, every lo follows hi.
WellFormed(s) ==
  \A i \in 1..Len(s) :
    /\ s[i] = "hi" => (i < Len(s) /\ s[i + 1] \in {"lo", "lo2"})
    /\ s[i] \in {"lo", "lo2"} => (i > 1 /\ s[i - 1] = "hi")

HasSigma(s) == \E i \in 1..Len(s) : s[i] = "SIGMA"

\* C9: idempotence.  Applying normalizeForSearch to its own result returns
\* that result.
C9_Idempotent == normCalls = 2 => normOut = normArg

\* C9 restricted to texts in which no surrogate stands alone.
C9_IdempotentOnWellFormed ==
  (normCalls = 2 /\ WellFormed(normText)) => normOut = normArg

\* A text with a dash, a capital sigma and whitespace went through twice.
C9_WellFormedWitness ==
  /\ normCalls = 2
  /\ normText = <<"A", "SIGMA", "sp">>
  /\ normOut = <<"a", "fsigma">>

ExampleTypographic ==
  <<"d", "o", "n", "rsquo", "t", "sp", "emdash", "sp",
    "r", "e", "a", "l", "l", "y">>

ExampleAscii ==
  <<"d", "o", "n", "apos", "t", "sp", "hyphen", "sp",
    "r", "e", "a", "l", "l", "y">>

\* C10: typographic equivalence.  Two texts that differ only by typographic
\* dashes or quotes against their ASCII equivalents, by letter case, by
\* whitespace or by soft hyphens normalize to the same string (the example
\* of the specification included), and normChar returns every character
\* outside its table unchanged.
C10_TypographicEquivalence ==
  /\ normCalls = 1 => normOut = normalizeForSearch(normBase)
  /\ normalizeForSearch(ExampleTypographic) = normalizeForSearch(ExampleAscii)
  /\ \A ch \in CodeUnits \ Typographic : normChar(ch) = ch

\* C10 restricted to texts without a capital sigma and without a lone
\* surrogate.
C10_EquivalentOnPlainText ==
  /\ (/\ normCalls = 1
      /\ ~ HasSigma(normBase)
      /\ WellFormed(normBase)
      /\ WellFormed(normText))
     => normOut = normalizeForSearch(normBase)
  /\ normalizeForSearch(ExampleTypographic) = normalizeForSearch(ExampleAscii)
  /\ \A ch \in CodeUnits \ Typographic : normChar(ch) = ch

\* An em dash between an upper-case letter and a soft hyphen was normalized
\* next to its all-ASCII lower-case spelling.
C10_PlainTextWitness ==
  /\ normCalls = 1
  /\ normBase = <<"A", "emdash", "shy">>
  /\ normText = <<"a", "sp", "hyphen">>
  /\ normOut = <<"a", "hyphen">>

----------------------------------------------------------------------------
(* Claims about renderPage, checked under SpecRender *)

\* The step is the continuation of `run` that appends its spans.
IsGotTextOf(run) ==
  /\ run \in renders
  /\ run.at = "getTextContent"
  /\ renders' = renders \ {run}
  /\ Len(textLayer') > Len(textLayer)

\* The spans the step appended to the text layer.
Appended == SubSeq(textLayer', Len(textLayer) + 1, Len(textLayer'))

\* C11 as stated: a fragment is highlighted if and only if its stripped
\* text contains at least one stripped anchor as a substring.
C11_HighlightIffContainsAnchor ==
  [][\A run \in renders :
       IsGotTextOf(run) =>
         \A i \in 1..Len(Appended) :
            Appended[i].hit <=>
              \E k \in 1..Len(run.tokens) :
                 includes(normalizeForSearch(Appended[i].str),
                          normalizeForSearch(run.tokens[k]))]_vars

\* C11 amended: a fragment is highlighted if and only if its stripped text
\* contains, as a substring, at least one anchor whose stripped form is not
\* empty; the spans are the fragments of the page, whole and in order.
C11_HighlightIffContainsNonEmptyAnchor ==
  [][\A run \in renders :
       IsGotTextOf(run) =>
         /\ Len(Appended) = Len(pageItems(run.page))
         /\ \A i \in 1..Len(Appended) :
              /\ Appended[i].str = pageItems(run.page)[i]
              /\ Appended[i].hit <=>
                   \E k \in 1..Len(run.tokens) :
                      /\ normalizeForSearch(run.tokens[k]) # <<>>
                      /\ includes(normalizeForSearch(Appended[i].str),
                                  normalizeForSearch(run.tokens[k]))]_vars

\* Page 1 was rendered with an anchor that strips to nothing and the anchor
\* "-A": two fragments are highlighted, the blank one is not.
C11_Witness ==
  /\ highlightTokens = << <<"sp">>, <<"hyphen", "A">> >>
  /\ renders = {}
  /\ Len(textLayer) = 3
  /\ textLayer[1].hit /\ textLayer[2].hit /\ ~ textLayer[3].hit

\* Every anchor of the list strips to the empty string (the empty list too).
AllAnchorsEmpty(tokens) ==
  \A k \in 1..Len(tokens) : normalizeForSearch(tokens[k]) = <<>>

\* C21: empty anchors never highlight.  A run of renderPage whose anchor
\* list is empty, or holds only anchors that strip to the empty string,
\* appends no highlighted span.
C21_EmptyAnchorsNeverHighlight ==
  [][\A run \in renders :
       (IsGotTextOf(run) /\ AllAnchorsEmpty(run.tokens)) =>
         \A i \in 1..Len(Appended) : ~ Appended[i].hit]_vars

\* The matcher answered with a blank and a soft hyphen followed by a blank
\* as anchors; the page was rendered with them and no span is highlighted.
C21_Witness ==
  /\ highlightTokens = << <<"sp">>, <<"shy", "sp">> >>
  /\ renders = {}
  /\ rendered >= 2
  /\ pdfMessage # MsgRenderFailed
  /\ Len(textLayer) > 0
  /\ \A i \in 1..Len(textLayer) : ~ textLayer[i].hit

\* C13: last render wins.  Once every run of renderPage has finished, none
\* of them through the catch, the canvas shows the page requested last and
\* the text layer holds exactly the spans of that page with the highlights
\* requested last.
C13_LastRenderWins ==
  (renders = {} /\ rendered >= 2 /\ pdfMessage # MsgRenderFailed) =>
    /\ canvas = [doc |-> pdfDoc, page |-> pageNumber]
    /\ textLayer = spansOf(pageNumber, highlightTokens)

----------------------------------------------------------------------------
(* Claims about the matcher path of onSelect, checked under SpecMatch *)

\* C14: missing quote.  When the document of a record without a quote
\* loads, the matcher is not called and nothing is scanned: the invocation
\* ends there, with the document displayed on page 1, no highlight token,
\* the loading flag cleared and a message that is not the load failure.
C14_MissingQuoteShowsPageOne ==
  [][\A inv \in inflight :
       (MatchLoadResolved(inv) /\ pickField(inv.row, QuoteFields) = Null) =>
         /\ \A other \in inflight' : other.doc # inv.doc
         /\ UNCHANGED finderVars
         /\ pdfDoc' = inv.doc
         /\ pageNumber' = 1
         /\ highlightTokens' = <<>>
         /\ loadingPdf' = FALSE
         /\ pdfMessage' = MsgNoQuote
         /\ pdfMessage' # MsgLoadFailed]_vars

\* The record with an identifier and an empty quote is selected and its
\* document is on screen, unhighlighted, with nothing in flight.
C14_Witness ==
  /\ selected = ItemsMatch[3]
  /\ pdfDoc # NoDoc
  /\ pdfDoc.src = proxiedUrl(ItemsMatch[3])
  /\ inflight = {}
  /\ pageNumber = 1
  /\ highlightTokens = <<>>
  /\ pdfMessage = MsgNoQuote

\* C15: external matcher path.  When /match_pdf answers, the page number
\* becomes the page the answer names and the highlight tokens become exactly
\* its anchors; the displayed document is left alone and no page is scanned.
C15_MatcherAnswerApplied ==
  [][\A inv \in inflight, mj \in MatchAnswers :
       MatchAnswered(inv, mj) =>
         /\ \A n \in 1..Len(PageNames) :
              mj.page = PageNames[n] => pageNumber' = n
         /\ mj.anchors # Null => highlightTokens' = mj.anchors
         /\ pickField(inv.row, IdFields) # Null
         /\ pickField(inv.row, QuoteFields) # Null
         /\ UNCHANGED <<pdfDoc, finderVars>>]_vars

\* The matcher named page 2 and one anchor for the selected record, whose
\* document is on screen.
C15_Witness ==
  /\ selected # NoRow
  /\ pdfDoc # NoDoc
  /\ pdfDoc.src = proxiedUrl(selected)
  /\ inflight = {}
  /\ pdfMessage = MsgGptMatch("2")
  /\ pageNumber = 2
  /\ highlightTokens = << <<"A", "endash", "a">> >>

\* C16: a matcher failure is not a failure of onSelect.  When the matcher
\* call throws or answers with a response that is not ok, the invocation
\* ends: the displayed document is left as it is, the page number is 1, the
\* highlight set is empty, the loading flag is cleared and the message is
\* not the load failure.
C16_MatcherFailureKeepsDocument ==
  [][\A inv \in inflight :
       (MatchThrew(inv) \/ MatchNotOk(inv)) =>
         /\ inv \notin inflight'
         /\ pdfDoc' = pdfDoc
         /\ pageNumber' = 1
         /\ highlightTokens' = <<>>
         /\ loadingPdf' = FALSE
         /\ pdfMessage' \in {MsgMatchThrew, MsgMatchHttp}
         /\ pdfMessage' # MsgLoadFailed]_vars

\* The matcher answered with an HTTP error for the selected record: its
\* document is on screen on page 1 without highlights, nothing is loading.
C16_Witness ==
  /\ selected # NoRow
  /\ pdfDoc # NoDoc
  /\ pdfDoc.src = proxiedUrl(selected)
  /\ inflight = {}
  /\ pdfMessage = MsgMatchHttp
  /\ pageNumber = 1
  /\ highlightTokens = <<>>
  /\ ~ loadingPdf

\* C19: page number within the document.  Whenever a document is displayed
\* the page number lies between 1 and the number of pages of that document.
C19_PageWithinDocument ==
  pdfDoc # NoDoc => pageNumber \in 1..NumPages

----------------------------------------------------------------------------
(* Claims about the indexer and the locator, checked under SpecIndex *)

\* C12: multi-fragment span.  For the fragments "Hello ", "World" the
\* canonical string is "hello world" and locating "hello world" yields the
\* fragment set {0, 1}; in general a needle made of two non-blank fragments
\* that follow each other, joined by whitespace, yields both.
C12_MultiFragmentSpan ==
  finderAt = "located" =>
    /\ (frags = ExampleFragments /\ needle = ExampleNeedle)
         => (canonical = ExampleNeedle /\ located = {0, 1})
    /\ (/\ Len(frags) = 2
        /\ needle = <<"A", "sp", "sp", "a">>
        /\ normalizeCollapsing(frags[1]) = <<"a">>
        /\ normalizeCollapsing(frags[2]) = <<"a">>)
         => located = {0, 1}

\* The example of the specification went through buildIndex and locate.
C12_Witness ==
  /\ finderAt = "located"
  /\ frags = ExampleFragments
  /\ needle = ExampleNeedle
  /\ located = {0, 1}

\* C18: the index map is as long as the canonical string, every entry is
\* the index of a fragment, and the entries never decrease.
C18_IndexMapWellFormed ==
  finderAt # "fragments" =>
    /\ Len(indexMap) = Len(canonical)
    /\ \A i \in 1..Len(indexMap) : indexMap[i] \in 0..(Len(frags) - 1)
    /\ \A i \in 1..(Len(indexMap) - 1) : indexMap[i] <= indexMap[i + 1]

\* An empty fragment, then a fragment that ends in whitespace: the map names
\* only the second fragment and the trailing separator is gone.
C18_Witness ==
  /\ finderAt = "indexed"
  /\ frags = << <<>>, <<"A", "sp">> >>
  /\ canonical = <<"a">>
  /\ indexMap = <<1>>

\* The empty sequence of fragments was indexed.
C18_EmptyWitness ==
  /\ finderAt = "indexed"
  /\ frags = <<>>
  /\ canonical = <<>>
  /\ indexMap = <<>>

----------------------------------------------------------------------------
(* Claims about the displayed document, checked under SpecCache *)

\* The document a handle was opened for, as the cache names documents: by
\* identifier, else by URL.
docKey(doc) ==
  IF doc.src = <<>> THEN NoKey ELSE <<doc.src[1], doc.src[2]>>

\* C20: the displayed document belongs to the selection.  Whenever no call
\* of getDocument is pending, no document is displayed or the displayed
\* document is the one the selected record names.
C20_DisplayedDocumentOfSelected ==
  inflight = {} =>
    \/ pdfDoc = NoDoc
    \/ selected # NoRow /\ docKey(pdfDoc) = getPdfCacheKey(selected)

\* C22: the loading flag follows the loads.  loadingPdf is true exactly
\* while at least one getDocument call started by onSelect is pending.
C22_LoadingFlagTracksLoads ==
  loadingPdf <=> inflight # {}

\* C23: one open per key.  A step that starts a getDocument call starts it
\* for a key that has no call pending and no entry in the cache.
C23_SingleOpenPerKey ==
  [][\A inv \in inflight' \ inflight :
       /\ \A other \in inflight : other.cacheKey # inv.cacheKey
       /\ inv.cacheKey \notin cacheKeys(pdfCache)]_vars

----------------------------------------------------------------------------
(* Claims about updateStatus and saveEdits, checked under SpecEdit *)

\* C24: a late status update or edit save keeps the selection.  When a call
\* of updateStatus or saveEdits made for record R ends while another record
\* is selected, the selection and its fields stay as they are.
C24_LateSaveKeepsSelection ==
  [][\A c \in saving :
       (c \notin saving' /\ selected # NoRow /\ selected[pk] # c.id) =>
         selected' = selected]_vars

----------------------------------------------------------------------------
(* Claims about the page scanner, checked under SpecScan *)

\* The pages requested so far are 1, 2, ... in this order, none of them
\* beyond min(pageCount, pageLimit).
RequestedInRange ==
  /\ \A i \in 1..Len(requested) : requested[i] = i
  /\ Len(requested) <= Len(scanDoc)
  /\ Len(requested) <= pageLimit

\* The scan ended: with the page requested last when it matched, with
\* NotFound only after the whole range was requested.
ScanEnded ==
  /\ finderAt = "found" =>
       /\ requested # <<>>
       /\ isMatch(needle, buildIndex(scanDoc[requested[Len(requested)]]))
       /\ located = locate(needle, canonical, indexMap)
  /\ finderAt = "notfound" =>
       /\ located = NotFound
       /\ Len(requested) = Len(scanDoc) \/ Len(requested) = pageLimit

\* C17: scan limit and early stop.  A scan requests the pages 1, 2, ... in
\* increasing order and none beyond min(pageCount, pageLimit); a decoded
\* page that matches ends the scan, after which no page is requested; the
\* scan answers NotFound only when the range is used up.  For the 10-page
\* document with the quote on page 7 and pageLimit 3 it ends with NotFound
\* having requested the pages 1, 2, 3 only.
C17_ScanLimitAndEarlyStop ==
  /\ [](RequestedInRange /\ ScanEnded)
  /\ []((scanDoc = ExampleDocument /\ pageLimit = ExamplePageLimit
           /\ finderAt \notin {"next", "decoding"})
          => (finderAt = "notfound" /\ requested = <<1, 2, 3>>))
  /\ [][/\ finderAt \in {"found", "notfound"} => UNCHANGED requested
        /\ (finderAt = "decoding" /\ finderAt' = "next") =>
             ~ isMatch(needle, buildIndex(scanDoc[requested[Len(requested)]]))
               \/ UNCHANGED <<frags, canonical, indexMap, located>>]_vars

\* The scan of the example document with pageLimit 3 ended.
C17_Witness ==
  /\ scanDoc = ExampleDocument
  /\ pageLimit = ExamplePageLimit
  /\ finderAt = "notfound"
  /\ requested = <<1, 2, 3>>

\* A scan skipped page 1, which failed to decode, and stopped at page 2,
\* leaving page 3 of the range unrequested.
C17_EarlyStopWitness ==
  /\ Len(scanDoc) = 3
  /\ pageLimit = 3
  /\ finderAt = "found"
  /\ requested = <<1, 2>>
  /\ scanDoc[1] = QuotePage
  /\ located = {0, 1}

----------------------------------------------------------------------------
(* Claims about the PDF cache (part_001), checked under SpecCache *)

cacheDocs(cache) == {cache[i].doc : i \in 1..Len(cache)}

\* The entries a step deletes from the cache.
Evictions == removedBy(pdfCache, pdfCache')

\* The step is the continuation of `inv` after its document load resolved.
IsResolveOf(inv) ==
  /\ inv \in inflight
  /\ inflight' = inflight \ {inv}
  /\ pdfMessage' = MsgLoadedCached

\* The step is the continuation of `inv` after its document load failed.
IsRejectOf(inv) ==
  /\ inv \in inflight
  /\ inflight' = inflight \ {inv}
  /\ pdfMessage' = MsgLoadFailed

\* C2: in every reachable state, hence after every insert-and-prune step of
\* onSelect, also with selections overlapping, the cache holds at most
\* MAX_PDF_CACHE entries.
C2_CacheBound == Len(pdfCache) <= MAX_PDF_CACHE

\* A load resolved into a full cache while another selection was in flight.
C2_Witness ==
  /\ Len(pdfCache) = MAX_PDF_CACHE
  /\ <<"id", "d6">> \in cacheKeys(pdfCache)
  /\ inflight # {}

\* C3: an entry removed by capacity enforcement has a lastUsed that is
\* minimal among all entries present at that moment (the ones that stay,
\* the inserted one included), and exactly MAX_PDF_CACHE entries remain.
C3_EvictsLeastRecentlyUsed ==
  [][\A e \in Evictions :
       /\ \A j \in 1..Len(pdfCache') : e.lastUsed <= pdfCache'[j].lastUsed
       /\ Len(pdfCache') = MAX_PDF_CACHE]_vars

\* Seven distinct keys were acquired (five warm ones, then d6 and u7), five remain.
C3_Witness ==
  /\ {<<"id", "d6">>, <<"url", "u7">>} \subseteq cacheKeys(pdfCache)
  /\ Len(pdfCache) = MAX_PDF_CACHE
  /\ inflight = {}

\* C4: selecting a record whose key is cached displays the cached handle,
\* starts no open, stamps that entry with the current time and leaves every
\* other entry, the set of keys and the order of the cache as they were.
C4_CacheHit ==
  [][\A row \in Rows :
       (/\ CacheOnSelect(row)
        /\ pdfjs = "ready"
        /\ getPdfCacheKey(row) \in cacheKeys(pdfCache))
       => LET key == getPdfCacheKey(row)
          IN /\ pdfDoc' = cacheGet(pdfCache, key).doc
             /\ opened' = opened
             /\ inflight' = inflight
             /\ loadingPdf' = loadingPdf
             /\ cacheKeys(pdfCache') = cacheKeys(pdfCache)
             /\ Len(pdfCache') = Len(pdfCache)
             /\ cacheGet(pdfCache', key).lastUsed = now
             /\ cacheDocs(pdfCache') = cacheDocs(pdfCache)
             /\ \A k \in cacheKeys(pdfCache) \ {key} :
                   cacheGet(pdfCache', k) = cacheGet(pdfCache, k)]_vars

\* A hit on the oldest entry of a full cache, one tick after the last insert.
C4_Witness ==
  /\ pdfMessage = MsgFromCache
  /\ Len(pdfCache) = MAX_PDF_CACHE
  /\ pdfCache[1].lastUsed = now
  /\ pdfCache[2].lastUsed < now
  /\ pdfDoc = pdfCache[1].doc

\* C5: when the open fails the cache is left exactly as it was, the failed
\* handle is in no entry, and the key is cached afterwards only if it was
\* before (so a later selection of an uncached key opens again).
C5_FailureNotCached ==
  [][\A inv \in inflight :
       IsRejectOf(inv)
       => /\ pdfCache' = pdfCache
          /\ inv.doc \notin cacheDocs(pdfCache')
          /\ pdfDoc' = pdfDoc]_vars

\* An open failed, its key is not cached and the cache is full.
C5_Witness ==
  /\ pdfMessage = MsgLoadFailed
  /\ selected # NoRow
  /\ getPdfCacheKey(selected) # NoKey
  /\ getPdfCacheKey(selected) \notin cacheKeys(pdfCache)
  /\ Len(pdfCache) = MAX_PDF_CACHE
  /\ inflight = {}

\* C6: capacity enforcement never evicts the entry the same acquire just
\* inserted, and never evicts the entry whose document is displayed.
C6_NoEvictionOfInUse ==
  [][/\ \A inv \in inflight :
          IsResolveOf(inv) => inv.cacheKey \in cacheKeys(pdfCache')
     /\ \A e \in Evictions : e.doc # pdfDoc]_vars

\* C6, first half: the entry an acquire inserts survives its own prune.
C6_InsertedSurvives ==
  [][\A inv \in inflight :
       IsResolveOf(inv) => /\ inv.cacheKey \in cacheKeys(pdfCache')
                           /\ inv.doc \in cacheDocs(pdfCache')]_vars

\* C7: an entry evicted for capacity has its document handle destroyed.
C7_EvictedIsDestroyed ==
  [][\A e \in Evictions : e.doc \in destroyed']_vars

\* C8: the key is `id:` + identifier whenever an identifier is present,
\* whatever the URL; `url:` + URL only without identifier; null with neither,
\* and then onSelect touches neither the cache nor the loader.
C8_Keying ==
  [][\A row \in Rows :
       LET id == pickField(row, IdFields)
           url == pickField(row, UrlFields)
           key == IF id # Null THEN <<"id", id>>
                  ELSE IF url # Null THEN <<"url", url>> ELSE NoKey
       IN (CacheOnSelect(row) /\ pdfjs = "ready")
          => /\ \A inv \in inflight' \ inflight : inv.cacheKey = key
             /\ pdfDoc' # pdfDoc => pdfDoc' = cacheGet(pdfCache, key).doc
             /\ \A i \in 1..Len(pdfCache) :
                   pdfCache'[i] # pdfCache[i] => pdfCache[i].key = key
             /\ key = NoKey => /\ pdfCache' = pdfCache
                                /\ inflight' = inflight
                                /\ opened' = opened
                                /\ pdfDoc' = pdfDoc
             /\ (key # NoKey /\ key \notin cacheKeys(pdfCache))
                  => inflight' # inflight]_vars

\* The record with identifier d1 and URL u2 is shown the handle that was
\* opened through the record with identifier d1 and URL u1.
C8_Witness ==
  /\ selected = ItemsKeying[2]
  /\ pdfMessage = MsgFromCache
  /\ pdfDoc.src = proxiedUrl(ItemsKeying[1])

====
